---- MODULE Spec2Model ----
(***************************************************************************)
(* Turn orchestration of the computer-use sample app.                      *)
(*                                                                         *)
(*   agent/agent.py   Agent.run_full_turn (the turn loop) and              *)
(*                    Agent.handle_item (the action dispatcher)            *)
(*   cli.py           the command-line host: prompt, run a turn, repeat    *)
(*   server.py        the websocket host: receive loop, executor worker,   *)
(*                    remote safety gate                                   *)
(*                                                                         *)
(* The model transport (utils.create_response) is an opaque collaborator:  *)
(* the stub holds the response it will give to the next call of the        *)
(* current turn, drawn when the turn starts and again after each call.     *)
(***************************************************************************)
EXTENDS Integers, Sequences, FiniteSets, TLC

VARIABLES
    host,                \* "cli" (cli.py main) or "server" (server.py connect)
    environment,         \* computer.environment of the Surface
    debug,               \* the debug argument of run_full_turn
    stub,                \* <<r>>: the model transport answers the turn's next call with r (NoStub between turns)
    conversation_items,  \* cli.py `items` / server.py `conversation_items`
    pc,                  \* run_full_turn: idle, awaiting_model, processing_items, done, failed
    input_items,         \* run_full_turn's input_items argument
    new_items,           \* run_full_turn's new_items
    response,            \* response["output"] of the current model call
    idx,                 \* index in response of the next item to hand to handle_item
    chk,                 \* handle_item: index of the pending check whose answer is awaited (0: none)
    calls,               \* model calls made in the current turn
    err,                 \* the exception that ended the turn (NoError if none)
    trace,               \* Surface, gate and output events of the current turn, in order
    cpc,                 \* cli.py main loop: prompt, turn, exited, crashed
    turns,               \* turns started by the host (cli.py: at most MaxTurns)
    hpc,                 \* server.py receive loop: recv, await, closed, crashed
    inbound,             \* frames sent by the client, not yet returned by websocket.recv()
    outbound,            \* frames the server sent to the client
    processing_turn,     \* server.py processing_turn
    safety_response_queue, \* server.py safety_response_queue (queue.Queue)
    running,             \* turns whose run_turn is in the executor and has not finished
    result,              \* outcome of each finished run_turn, by turn
    awaited,             \* the turn whose future the receive loop awaits (0: none)
    started,             \* the client input frames that started a turn, in order
    sent,                \* frames the client has sent so far
    unit,                \* the component a behaviour exercises: "hosts", or one of Units
    screen,              \* pig.py: (screen_w, screen_h), NoScreen before __enter__
    physical,            \* pig.py: the argument of the last to_model_coordinates call
    model_point,         \* pig.py: what that call returned
    request,             \* pig.py: the last pointer method called on PigWindows
    connection_calls,    \* pig.py: the calls that method made on self.connection
    key_backend,         \* the backend whose keypress was called last (None: none yet)
    key_request,         \* the keys argument of that call
    native_keys,         \* what it handed to the native key call
    variant,             \* the Surface class used as a context manager (None: none yet)
    scope,               \* its with-block: constructed, entered, exited
    held,                \* the resources acquired and not yet closed or released
    raised,              \* an action inside the with-block raised
    lists,               \* agent.py: the list objects tool specs are kept in, by identity
    agents,              \* the Agents constructed so far, in order
    browser_variant,     \* the remote-browser Surface whose pages are followed (None: none yet)
    pages,               \* self._browser.contexts[0].pages: the open pages, in creation order
    active,              \* self._page
    close_handlers,      \* the pages _handle_page_close is registered on
    created              \* pages created in the context so far

hostVars == <<host, environment, debug, stub, conversation_items, pc, input_items,
          new_items, response, idx, chk, calls, err, trace, cpc, turns,
          hpc, inbound, outbound, processing_turn, safety_response_queue,
          running, result, awaited, started, sent>>

pigVars == <<screen, physical, model_point, request, connection_calls>>

\* the state of the components modelled on their own
keyVars == <<key_backend, key_request, native_keys>>

scopeVars == <<variant, scope, held, raised>>

toolVars == <<lists, agents>>

pageVars == <<browser_variant, pages, active, close_handlers, created>>

unitVars == <<unit, pigVars, keyVars, scopeVars, toolVars, pageVars>>

vars == <<hostVars, unitVars>>

agentVars == <<stub, pc, input_items, new_items, response, idx, chk,
               calls, err, trace>>

serverVars == <<hpc, inbound, outbound, processing_turn, safety_response_queue,
                running, result, awaited, started, sent>>

(***************************************************************************)
(* Bounds of the model                                                     *)
(***************************************************************************)
MaxModelCalls == 2
MaxTurns == 1
MaxClientMsgs == 3

(***************************************************************************)
(* Conversation items                                                      *)
(***************************************************************************)
Message == [type |-> "message", role |-> "assistant"]

Reasoning == [type |-> "reasoning"]

FunctionCall(name) == [type |-> "function_call", name |-> name]

ComputerCall(action, checks) ==
    [type |-> "computer_call", action |-> action, pending_safety_checks |-> checks]

Developer == [role |-> "developer", content |-> "instructions"]

User(text) == [role |-> "user", content |-> text]

\* item.get("role")
Role(item) == IF "role" \in DOMAIN item THEN item.role ELSE "None"

Last(s) == s[Len(s)]

NoError == [type |-> "None", text |-> <<>>]

\* f"Safety check failed: {message}. Cannot continue with unacknowledged safety checks."
SafetyCheckFailed(message) ==
    [type |-> "ValueError",
     text |-> <<"Safety check failed: ", message,
                ". Cannot continue with unacknowledged safety checks.">>]

NoOutputFromModel == [type |-> "ValueError", text |-> <<"No output from model">>]

\* response["output"] on a response without that key
KeyErrorOutput == [type |-> "KeyError", text |-> <<"'output'">>]

\* getattr(self.computer, action_type) on a Surface without that method
AttributeErrorOf(name) == [type |-> "AttributeError", text |-> <<"no attribute ", name>>]

\* the backend's own failure of an action call
BackendError == [type |-> "BackendError", text |-> <<"backend action failed">>]

\* check_blocklisted_url raising on a blocked URL
BlockedUrlError == [type |-> "ValueError", text |-> <<"Blocked URL">>]

(***************************************************************************)
(* The Surface                                                             *)
(***************************************************************************)
\* methods of MacOSComputer the model can name
MacMethods == {"click", "open_app"}

\* methods of a browser Surface the model can name
BrowserMethods == {"click", "goto"}

SurfaceMethods(env) == IF env = "browser" THEN BrowserMethods ELSE MacMethods

(***************************************************************************)
(* The model transport stub                                                *)
(***************************************************************************)
WithOutput(items) == [has_output |-> TRUE, output |-> items]

Responses ==
    { WithOutput(<<Message>>),
      WithOutput(<<ComputerCall("click", <<>>)>>),
      WithOutput(<<ComputerCall("click", <<"m1", "m2">>)>>),
      WithOutput(<<ComputerCall("click", <<>>), Message>>),
      WithOutput(<<Message, FunctionCall("open_app")>>),
      WithOutput(<<FunctionCall("goto"), Reasoning>>),
      WithOutput(<<ComputerCall("goto", <<"m1">>), ComputerCall("click", <<>>)>>),
      WithOutput(<<>>),
      [has_output |-> FALSE, output |-> <<>>] }

Stubs == { <<r>> : r \in Responses }

\* between turns there is no stub
NoStub == << >>

CallTypes == {"function_call", "computer_call"}

\* the call_id the model gives the item at position i of its k-th response
CallId(k, i) == 10 * k + i

Stamp(items, k) ==
    [i \in 1..Len(items) |->
        IF items[i].type \in CallTypes
        THEN [call_id |-> CallId(k, i)] @@ items[i]
        ELSE items[i]]

(***************************************************************************)
(* Agent.handle_item: the action dispatcher                                *)
(***************************************************************************)
Ev(ev, call, arg) == [ev |-> ev, call |-> call, arg |-> arg]

\* the screenshot taken before the action is invoked
PreGateEventsScreenshotFirst(item) ==
    << Ev("screenshot", item.call_id, ""),
       Ev("action", item.call_id, item.action) >>

\* the action invoked a second time after the screenshot
PreGateEventsActionTwice(item) ==
    << Ev("action", item.call_id, item.action),
       Ev("screenshot", item.call_id, ""),
       Ev("action", item.call_id, item.action) >>

\* method(**action_args); screenshot_base64 = self.computer.screenshot()
PreGateEvents(item) ==
    << Ev("action", item.call_id, item.action),
       Ev("screenshot", item.call_id, "") >>

\* an output that does not carry the call's call_id
FunctionCallOutputNoCallId(item) ==
    [type |-> "function_call_output", call_id |-> 0, output |-> "success"]

FunctionCallOutput(item) ==
    [type |-> "function_call_output", call_id |-> item.call_id, output |-> "success"]

\* an output that carries current_url whatever the environment
ComputerCallOutputWithUrl(item, env) ==
    [type |-> "computer_call_output",
     call_id |-> item.call_id,
     acknowledged_safety_checks |-> item.pending_safety_checks,
     output |-> [type |-> "input_image", current_url |-> "url"]]

ComputerCallOutput(item, env) ==
    [type |-> "computer_call_output",
     call_id |-> item.call_id,
     acknowledged_safety_checks |-> item.pending_safety_checks,
     output |-> IF env = "browser"
                THEN [type |-> "input_image", current_url |-> "url"]
                ELSE [type |-> "input_image"]]

\* get_current_url and check_blocklisted_url, for browser environments only
UrlEvents(item, env) ==
    IF env = "browser"
    THEN << Ev("current_url", item.call_id, ""), Ev("blocklist", item.call_id, "") >>
    ELSE << >>

\* bool(response) of a safety_check_response value
Truthy(v) == v \notin {"false", "0", "null"}

\* the frame safety_check_callback sends before it blocks on the queue
SafetyCheckFrame(message) == [kind |-> "safety_check", text |-> <<message>>]

\* acknowledge_safety_check_callback(message) up to the point where it blocks:
\* the server's callback sends the frame, the command line's prints the prompt
GateAsk(message) ==
    outbound' = IF host = "server"
                THEN Append(outbound, SafetyCheckFrame(message))
                ELSE outbound

\* an exception leaves handle_item and run_full_turn
Raise(e, tr) ==
    /\ pc' = "failed"
    /\ err' = e
    /\ trace' = tr
    /\ chk' = 0
    /\ UNCHANGED <<new_items, idx>>

\* the code after the safety-check loop: build the output, check the URL, return it
BuildOutput(item, tr, blocked) ==
    IF environment = "browser" /\ blocked
    THEN Raise(BlockedUrlError, tr \o UrlEvents(item, environment))
    ELSE /\ new_items' = Append(new_items, ComputerCallOutput(item, environment))
         /\ trace' = tr \o UrlEvents(item, environment)
                        \o << Ev("output", item.call_id, "") >>
         /\ idx' = idx + 1
         /\ chk' = 0
         /\ UNCHANGED <<pc, err>>

\* what follows a check the gate acknowledged: the next prompt, or the output
AfterAcknowledged(item, tr, blocked) ==
    IF chk < Len(item.pending_safety_checks)
    THEN /\ chk' = chk + 1
         /\ trace' = tr \o << Ev("ask", item.call_id, item.pending_safety_checks[chk + 1]) >>
         /\ GateAsk(item.pending_safety_checks[chk + 1])
         /\ UNCHANGED <<pc, err, new_items, idx>>
    ELSE /\ BuildOutput(item, tr, blocked)
         /\ UNCHANGED outbound

\* a refused check treated like an acknowledged one
AfterDeniedIgnored(item, tr) == AfterAcknowledged(item, tr, FALSE)

\* what follows a check the gate refused
AfterDenied(item, tr) ==
    /\ Raise(SafetyCheckFailed(item.pending_safety_checks[chk]), tr)
    /\ UNCHANGED outbound

\* getattr without the hasattr probe of the function-call path
HandleFunctionCallNoProbe(item) ==
    IF item.name \notin SurfaceMethods(environment)
    THEN Raise(AttributeErrorOf(item.name), trace)
    ELSE \E fails \in BOOLEAN :
            LET tr == Append(trace, Ev("action", item.call_id, item.name)) IN
            IF fails
            THEN Raise(BackendError, tr)
            ELSE /\ new_items' = Append(new_items, FunctionCallOutput(item))
                 /\ trace' = tr
                 /\ idx' = idx + 1
                 /\ UNCHANGED <<pc, err, chk>>

HandleFunctionCall(item) ==
    IF item.name \in SurfaceMethods(environment)
    THEN \E fails \in BOOLEAN :
            LET tr == Append(trace, Ev("action", item.call_id, item.name)) IN
            IF fails
            THEN Raise(BackendError, tr)
            ELSE /\ new_items' = Append(new_items, FunctionCallOutput(item))
                 /\ trace' = tr
                 /\ idx' = idx + 1
                 /\ UNCHANGED <<pc, err, chk>>
    ELSE /\ new_items' = Append(new_items, FunctionCallOutput(item))
         /\ idx' = idx + 1
         /\ UNCHANGED <<pc, err, chk, trace>>

\* the computer-call path probing like the function-call path: an absent
\* capability is skipped and the rest of the dispatch goes on
HandleComputerCallProbing(item) ==
    \E fails \in BOOLEAN, blocked \in BOOLEAN :
        IF fails /\ item.action \in SurfaceMethods(environment)
        THEN /\ Raise(BackendError, Append(trace, Ev("action", item.call_id, item.action)))
             /\ UNCHANGED outbound
        ELSE LET tr == IF item.action \in SurfaceMethods(environment)
                       THEN trace \o PreGateEvents(item)
                       ELSE Append(trace, Ev("screenshot", item.call_id, "")) IN
             IF item.pending_safety_checks = << >>
             THEN /\ BuildOutput(item, tr, blocked)
                  /\ UNCHANGED outbound
             ELSE /\ chk' = 1
                  /\ trace' = Append(tr, Ev("ask", item.call_id, item.pending_safety_checks[1]))
                  /\ GateAsk(item.pending_safety_checks[1])
                  /\ UNCHANGED <<pc, err, new_items, idx>>

HandleComputerCall(item) ==
    IF item.action \notin SurfaceMethods(environment)
    THEN /\ Raise(AttributeErrorOf(item.action), trace)
         /\ UNCHANGED outbound
    ELSE \E fails \in BOOLEAN, blocked \in BOOLEAN :
            IF fails
            THEN /\ Raise(BackendError, Append(trace, Ev("action", item.call_id, item.action)))
                 /\ UNCHANGED outbound
            ELSE LET tr == trace \o PreGateEvents(item) IN
                 IF item.pending_safety_checks = << >>
                 THEN /\ BuildOutput(item, tr, blocked)
                      /\ UNCHANGED outbound
                 ELSE /\ chk' = 1
                      /\ trace' = Append(tr, Ev("ask", item.call_id, item.pending_safety_checks[1]))
                      /\ GateAsk(item.pending_safety_checks[1])
                      /\ UNCHANGED <<pc, err, new_items, idx>>

\* handle_item(item), up to its return, its raise, or its first blocking gate prompt
DispatchItem ==
    /\ UNCHANGED unitVars
    /\ pc = "processing_items"
    /\ chk = 0
    /\ idx <= Len(response)
    /\ LET item == response[idx] IN
         CASE item.type = "function_call" ->
                /\ HandleFunctionCall(item)
                /\ UNCHANGED outbound
           [] item.type = "computer_call" -> HandleComputerCall(item)
           [] OTHER ->
                /\ idx' = idx + 1
                /\ UNCHANGED <<pc, err, chk, trace, new_items, outbound>>
    /\ UNCHANGED <<host, environment, debug, stub, conversation_items, input_items,
                   response, calls, cpc, turns, hpc, inbound, processing_turn,
                   safety_response_queue, running, result, awaited, started, sent>>

\* the blocked gate callback returns: input() at the command line,
\* safety_response_queue.get() in the server
GateReturn ==
    /\ UNCHANGED unitVars
    /\ pc = "processing_items"
    /\ chk > 0
    /\ \E answer \in {"true", "false"}, blocked \in BOOLEAN :
         /\ IF host = "server"
            THEN /\ safety_response_queue # << >>
                 /\ answer = Head(safety_response_queue)
                 /\ safety_response_queue' = Tail(safety_response_queue)
            ELSE UNCHANGED safety_response_queue
         /\ LET item == response[idx]
                tr == Append(trace, Ev(IF Truthy(answer) THEN "acknowledged" ELSE "denied",
                                       item.call_id, item.pending_safety_checks[chk]))
            IN IF Truthy(answer)
               THEN AfterAcknowledged(item, tr, blocked)
               ELSE AfterDenied(item, tr)
    /\ UNCHANGED <<host, environment, debug, stub, conversation_items, input_items,
                   response, calls, cpc, turns, hpc, inbound, processing_turn,
                   running, result, awaited, started, sent>>

(***************************************************************************)
(* Agent.run_full_turn: the turn loop                                      *)
(***************************************************************************)
\* the loop stopping as soon as any new item is an assistant message
LoopConditionAnyAssistant(items) ==
    \A i \in DOMAIN items : Role(items[i]) # "assistant"

\* a loop that never stops on its own
LoopConditionAlways(items) == TRUE

\* the terminal test applied to the last item the model returned, outputs skipped
LoopConditionLastModelItem(items) ==
    LET model_items == SelectSeq(items, LAMBDA it :
                           it.type \notin {"function_call_output", "computer_call_output"})
    IN IF model_items # << >> THEN Role(Last(model_items)) # "assistant" ELSE TRUE

\* while new_items[-1].get("role") != "assistant" if new_items else True
LoopCondition(items) ==
    IF items # << >> THEN Role(Last(items)) # "assistant" ELSE TRUE

\* the frame of a fresh call of run_full_turn(items, ...)
EnterTurnLoop(items) ==
    /\ pc' = "awaiting_model"
    /\ input_items' = items
    /\ new_items' = << >>
    /\ response' = << >>
    /\ idx' = 1
    /\ chk' = 0
    /\ calls' = 0
    /\ err' = NoError
    /\ trace' = << >>

\* the model calls explored in the current turn: MaxModelCalls in a host's first
\* turn, one fewer in each later turn
CallBudget == MaxModelCalls - (IF turns > 1 THEN turns - 1 ELSE 0)

\* create_response(input=input_items + new_items, ...) and the append of its output
CallModel ==
    /\ UNCHANGED unitVars
    /\ pc = "awaiting_model"
    /\ calls < CallBudget
    /\ calls' = calls + 1
    /\ \E s \in Stubs : stub' = s
    /\ LET r == stub[1] IN
         IF ~r.has_output
         THEN /\ pc' = "failed"
              /\ err' = IF debug THEN NoOutputFromModel ELSE KeyErrorOutput
              /\ UNCHANGED <<new_items, response, idx>>
         ELSE /\ response' = Stamp(r.output, calls + 1)
              /\ new_items' = new_items \o Stamp(r.output, calls + 1)
              /\ idx' = 1
              /\ pc' = "processing_items"
              /\ UNCHANGED err
    /\ UNCHANGED <<host, environment, debug, conversation_items, input_items,
                   chk, trace, cpc, turns>>
    /\ UNCHANGED serverVars

\* every item of the response was handled: the while condition is evaluated again
LoopTest ==
    /\ UNCHANGED unitVars
    /\ pc = "processing_items"
    /\ chk = 0
    /\ idx > Len(response)
    /\ pc' = IF LoopCondition(new_items) THEN "awaiting_model" ELSE "done"
    /\ UNCHANGED <<host, environment, debug, stub, conversation_items, input_items,
                   new_items, response, idx, chk, calls, err, trace, cpc, turns>>
    /\ UNCHANGED serverVars

(***************************************************************************)
(* cli.py: the command-line host                                           *)
(***************************************************************************)
\* one pass of the while loop of main, up to the call of run_full_turn
CliPrompt ==
    /\ UNCHANGED unitVars
    /\ host = "cli"
    /\ cpc = "prompt"
    /\ turns < MaxTurns
    /\ \E user_input \in {"exit", "EOF", "task"} :
         IF user_input \in {"exit", "EOF"}
         THEN /\ cpc' = "exited"
              /\ UNCHANGED <<conversation_items, turns>>
              /\ UNCHANGED agentVars
         ELSE /\ conversation_items' =
                    conversation_items \o << Developer, User(user_input) >>
              /\ \E s \in Stubs : stub' = s
              /\ EnterTurnLoop(conversation_items')
              /\ cpc' = "turn"
              /\ turns' = turns + 1
    /\ UNCHANGED <<host, environment, debug>>
    /\ UNCHANGED serverVars

\* run_full_turn returns or raises to its caller.  main (cli.py) has no handler for
\* an exception; run_turn (server.py) ends with it and so completes the future
ReturnToCaller ==
    /\ UNCHANGED unitVars
    /\ pc \in {"done", "failed"}
    /\ pc' = "idle"
    /\ IF host = "cli"
       THEN /\ cpc = "turn"
            /\ stub' = NoStub
            /\ IF pc = "done"
               THEN /\ conversation_items' = conversation_items \o new_items
                    /\ cpc' = "prompt"
               ELSE /\ cpc' = "crashed"
                    /\ UNCHANGED conversation_items
            /\ UNCHANGED <<running, result>>
       ELSE /\ awaited \in running
            /\ running' = running \ {awaited}
            /\ result' = result @@ (awaited :> [ok |-> pc = "done", err |-> err,
                                                 output_items |-> new_items])
            /\ UNCHANGED <<conversation_items, cpc, stub>>
    /\ UNCHANGED <<host, environment, debug, input_items, new_items, response,
                   idx, chk, calls, err, trace, turns, hpc, inbound, outbound,
                   processing_turn, safety_response_queue, awaited, started, sent>>

(***************************************************************************)
(* server.py: the websocket host                                           *)
(***************************************************************************)
\* parameters of Agent.run_full_turn besides self
RunFullTurnParams == {"input_items", "print_steps", "debug", "show_images"}

\* the arguments run_turn passes: input_items by position, the others by keyword
RunTurnArguments == {"input_items", "print_steps", "show_images", "debug", "status_callback"}

\* Python binds a call only if every keyword names a parameter
CallBinds == RunTurnArguments \subseteq RunFullTurnParams

UnexpectedKeyword == CHOOSE k \in RunTurnArguments \ RunFullTurnParams : TRUE

TypeErrorUnexpectedKeyword(k) ==
    [type |-> "TypeError",
     text |-> <<"run_full_turn() got an unexpected keyword argument ", k>>]

\* json.dumps({"error": str(e)}) and the other error replies
ErrorFrame(text) == [kind |-> "error", text |-> text]

InvalidJson == ErrorFrame(<<"Invalid JSON message">>)

BusyError == ErrorFrame(<<"Agent is processing a previous request. Please wait.">>)

UnrecognizedError ==
    ErrorFrame(<<"Unrecognized message format. Expecting a JSON with either 'input' or 'safety_check_response'.">>)

ExitMessage == [kind |-> "message", text |-> <<"Exiting connection.">>]

ClientFrames ==
    { [kind |-> "malformed", value |-> ""],
      [kind |-> "number", value |-> ""],
      [kind |-> "unrecognized", value |-> ""],
      [kind |-> "reset", value |-> ""],
      [kind |-> "safety_check_response", value |-> "true"],
      [kind |-> "safety_check_response", value |-> "false"],
      [kind |-> "input", value |-> "task"],
      [kind |-> "input", value |-> "exit"],
      [kind |-> "closed", value |-> ""] }

\* the client sends a frame (or closes); the websocket buffers it until recv()
ClientSend ==
    /\ UNCHANGED unitVars
    /\ host = "server"
    /\ hpc \in {"recv", "await"}
    /\ sent < MaxClientMsgs
    /\ IF inbound = << >> THEN TRUE ELSE Last(inbound).kind # "closed"
    /\ \E f \in ClientFrames :
         inbound' = Append(inbound, [busy |-> running # {}] @@ f)
    /\ sent' = sent + 1
    /\ UNCHANGED <<host, environment, debug, conversation_items, cpc, turns, hpc,
                   outbound, processing_turn, safety_response_queue, running, result,
                   awaited, started>>
    /\ UNCHANGED agentVars

\* a reset that leaves the history as it is
HandleResetKeepsHistory(m) ==
    /\ UNCHANGED <<conversation_items, hpc, outbound, processing_turn,
                   safety_response_queue, running, awaited, started, turns, stub>>

\* if "reset" in data
HandleReset(m) ==
    /\ conversation_items' = << >>
    /\ UNCHANGED <<hpc, outbound, processing_turn, safety_response_queue, running,
                   awaited, started, turns, stub>>

\* if "safety_check_response" in data
HandleSafetyCheckResponse(m) ==
    /\ safety_response_queue' = Append(safety_response_queue, m.value)
    /\ UNCHANGED <<hpc, outbound, processing_turn, conversation_items, running,
                   awaited, started, turns, stub>>

\* a turn started in the background, whatever processing_turn says, the loop going on
HandleInputInBackground(m) ==
    /\ processing_turn' = TRUE
    /\ conversation_items' =
           (IF conversation_items = << >> THEN << Developer >> ELSE conversation_items)
           \o << User(m.value) >>
    /\ turns' = turns + 1
    /\ running' = running \cup {turns + 1}
    /\ awaited' = turns + 1
    /\ started' = Append(started, m)
    /\ \E s \in Stubs : stub' = s
    /\ UNCHANGED <<hpc, outbound, safety_response_queue>>

\* if "input" in data
HandleInput(m) ==
    IF processing_turn
    THEN /\ outbound' = Append(outbound, BusyError)
         /\ UNCHANGED <<hpc, processing_turn, conversation_items, safety_response_queue,
                        running, awaited, started, turns, stub>>
    ELSE IF m.value = "exit"
    THEN /\ outbound' = Append(outbound, ExitMessage)
         /\ hpc' = "closed"
         /\ UNCHANGED <<processing_turn, conversation_items, safety_response_queue,
                        running, awaited, started, turns, stub>>
    ELSE /\ processing_turn' = TRUE
         /\ conversation_items' =
                (IF conversation_items = << >> THEN << Developer >> ELSE conversation_items)
                \o << User(m.value) >>
         /\ turns' = turns + 1
         /\ running' = running \cup {turns + 1}
         /\ awaited' = turns + 1
         /\ hpc' = "await"
         /\ started' = Append(started, m)
         /\ \E s \in Stubs : stub' = s
         /\ UNCHANGED <<outbound, safety_response_queue>>

\* one pass of the receive loop: websocket.recv() and the handling of the frame,
\* up to the next recv() or to the await of the executor's future
HandlerRecv ==
    /\ UNCHANGED unitVars
    /\ host = "server"
    /\ hpc = "recv"
    /\ inbound # << >>
    /\ inbound' = Tail(inbound)
    /\ LET m == Head(inbound) IN
         CASE m.kind = "closed" ->
                /\ hpc' = "closed"
                /\ UNCHANGED <<outbound, processing_turn, conversation_items,
                               safety_response_queue, running, awaited, started, turns, stub>>
           [] m.kind = "malformed" ->
                /\ outbound' = Append(outbound, InvalidJson)
                /\ UNCHANGED <<hpc, processing_turn, conversation_items,
                               safety_response_queue, running, awaited, started, turns, stub>>
           [] m.kind = "number" ->
                \* "reset" in data raises TypeError for a JSON number: nothing catches it
                /\ hpc' = "crashed"
                /\ UNCHANGED <<outbound, processing_turn, conversation_items,
                               safety_response_queue, running, awaited, started, turns, stub>>
           [] m.kind = "reset" -> HandleReset(m)
           [] m.kind = "safety_check_response" -> HandleSafetyCheckResponse(m)
           [] m.kind = "input" -> HandleInput(m)
           [] OTHER ->
                /\ outbound' = Append(outbound, UnrecognizedError)
                /\ UNCHANGED <<hpc, processing_turn, conversation_items,
                               safety_response_queue, running, awaited, started, turns, stub>>
    /\ UNCHANGED <<host, environment, debug, pc, input_items, new_items, response, idx,
                   chk, calls, err, trace, cpc, result, sent>>

\* the executor thread runs run_turn: the call of agent.run_full_turn(...)
WorkerRunTurn ==
    /\ UNCHANGED unitVars
    /\ host = "server"
    /\ pc = "idle"
    /\ \E t \in running :
         IF CallBinds
         THEN /\ t = awaited
              /\ EnterTurnLoop(conversation_items)
              /\ UNCHANGED <<running, result>>
         ELSE /\ running' = running \ {t}
              /\ result' = result @@ (t :> [ok |-> FALSE,
                                            err |-> TypeErrorUnexpectedKeyword(UnexpectedKeyword),
                                            output_items |-> << >>])
              /\ UNCHANGED <<pc, input_items, new_items, response, idx, chk, calls,
                             err, trace>>
    /\ UNCHANGED <<host, environment, debug, stub, conversation_items, cpc, turns, hpc,
                   inbound, outbound, processing_turn, safety_response_queue, awaited,
                   started, sent>>

\* a failed turn rolled back: the turn's user input taken out of the history
HandlerResumeRollback ==
    /\ UNCHANGED unitVars
    /\ host = "server"
    /\ hpc = "await"
    /\ awaited \in DOMAIN result
    /\ IF result[awaited].ok
       THEN /\ conversation_items' = conversation_items \o result[awaited].output_items
            /\ UNCHANGED outbound
       ELSE /\ outbound' = Append(outbound, ErrorFrame(result[awaited].err.text))
            /\ conversation_items' = SubSeq(conversation_items, 1, Len(conversation_items) - 1)
    /\ processing_turn' = FALSE
    /\ hpc' = "recv"
    /\ awaited' = 0
    /\ stub' = NoStub
    /\ UNCHANGED <<host, environment, debug, cpc, turns, inbound,
                   safety_response_queue, running, result, started, sent>>
    /\ UNCHANGED <<pc, input_items, new_items, response, idx, chk, calls, err, trace>>

\* await loop.run_in_executor(None, run_turn) returns or raises in the receive loop
HandlerResume ==
    /\ UNCHANGED unitVars
    /\ host = "server"
    /\ hpc = "await"
    /\ awaited \in DOMAIN result
    /\ IF result[awaited].ok
       THEN /\ conversation_items' = conversation_items \o result[awaited].output_items
            /\ UNCHANGED outbound
       ELSE /\ outbound' = Append(outbound, ErrorFrame(result[awaited].err.text))
            /\ UNCHANGED conversation_items
    /\ processing_turn' = FALSE
    /\ hpc' = "recv"
    /\ awaited' = 0
    /\ stub' = NoStub
    /\ UNCHANGED <<host, environment, debug, cpc, turns, inbound,
                   safety_response_queue, running, result, started, sent>>
    /\ UNCHANGED <<pc, input_items, new_items, response, idx, chk, calls, err, trace>>

(***************************************************************************)
(* computers/pig.py: PigWindows, the Surface that scales coordinates        *)
(***************************************************************************)
\* self.dimensions = (1024, 768): the viewport the model operates on
ModelWidth == 1024

ModelHeight == 768

None == "None"

NoScreen == << >>

\* physical screen sizes connection.dimensions() may report
Screens == { <<800, 600>>, <<1024, 768>>, <<1920, 1080>>, <<2560, 1440>> }

\* coordinates the model may send, inside and outside its viewport
ModelInputs == { <<x, y>> : x \in {0 - 3, 0, 1, 511, 1023, 1024, 1500},
                            y \in {0 - 3, 0, 767, 768} }

\* sample points of the physical viewport of a screen
PhysicalPoints(scr) ==
    { <<x, y>> : x \in {0, 1, scr[1] \div 2, scr[1] - 1},
                 y \in {0, 1, scr[2] \div 2, scr[2] - 1} }

\* int(a / b) for b > 0: Python's int() truncates toward zero
IntDiv(a, b) == IF a >= 0 THEN a \div b ELSE 0 - ((0 - a) \div b)

Min(a, b) == IF a <= b THEN a ELSE b

Max(a, b) == IF a >= b THEN a ELSE b

\* a clamp that lets a value past the upper bound
ToScreenCoordinatesUnclamped(model_x, model_y, scr) ==
    << Max(0, IntDiv(model_x * scr[1], ModelWidth)),
       Max(0, IntDiv(model_y * scr[2], ModelHeight)) >>

\* PigWindows.to_screen_coordinates
to_screen_coordinates(model_x, model_y, scr) ==
    << Max(0, Min(IntDiv(model_x * scr[1], ModelWidth), scr[1] - 1)),
       Max(0, Min(IntDiv(model_y * scr[2], ModelHeight), scr[2] - 1)) >>

\* the vertical coordinate scaled by the width of the model viewport
ToModelCoordinatesByWidth(screen_x, screen_y, scr) ==
    << Max(0, Min(IntDiv(screen_x * ModelWidth, scr[1]), ModelWidth - 1)),
       Max(0, Min(IntDiv(screen_y * ModelWidth, scr[2]), ModelHeight - 1)) >>

\* PigWindows.to_model_coordinates
to_model_coordinates(screen_x, screen_y, scr) ==
    << Max(0, Min(IntDiv(screen_x * ModelWidth, scr[1]), ModelWidth - 1)),
       Max(0, Min(IntDiv(screen_y * ModelHeight, scr[2]), ModelHeight - 1)) >>

Call(op, point) == [op |-> op, x |-> point[1], y |-> point[2]]

NoRequest == [op |-> None, points |-> << >>]

\* the state of PigWindows after __init__
PigIdle ==
    /\ screen = NoScreen
    /\ physical = None
    /\ model_point = None
    /\ request = NoRequest
    /\ connection_calls = << >>

\* __enter__: the connection is created and reports the physical dimensions
PigEnter ==
    /\ unit = "pig"
    /\ UNCHANGED <<hostVars, unit, keyVars, scopeVars, toolVars, pageVars>>
    /\ screen = NoScreen
    /\ \E scr \in Screens : screen' = scr
    /\ UNCHANGED <<physical, model_point, request, connection_calls>>

\* to_model_coordinates(screen_x, screen_y) on a point of the physical viewport
PigToModel ==
    /\ unit = "pig"
    /\ UNCHANGED <<hostVars, unit, keyVars, scopeVars, toolVars, pageVars>>
    /\ screen # NoScreen
    /\ \E p \in PhysicalPoints(screen) :
         /\ physical' = p
         /\ model_point' = to_model_coordinates(p[1], p[2], screen)
    /\ request' = NoRequest
    /\ connection_calls' = << >>
    /\ UNCHANGED screen

\* the points a pointer method is called with: what the model sends, or the
\* model coordinates computed for a physical point
PointerInputs == ModelInputs \cup (IF model_point = None THEN {} ELSE {model_point})

\* the physical point stays on record while the method is called with the model
\* coordinates computed for it
KeepRoundTrip(p) ==
    IF p = model_point
    THEN UNCHANGED <<physical, model_point>>
    ELSE physical' = None /\ model_point' = None

\* click(x, y, button)
PigClick ==
    /\ unit = "pig"
    /\ UNCHANGED <<hostVars, unit, keyVars, scopeVars, toolVars, pageVars>>
    /\ screen # NoScreen
    /\ \E p \in PointerInputs, button \in {"left", "right", "wheel"} :
         LET s == to_screen_coordinates(p[1], p[2], screen) IN
         /\ request' = [op |-> "click", points |-> <<p>>]
         /\ connection_calls' =
               IF button = "left" THEN << Call("left_click", s) >>
               ELSE IF button = "right" THEN << Call("right_click", s) >>
               ELSE << >>
         /\ KeepRoundTrip(p)
    /\ UNCHANGED screen

\* double_click(x, y) and move(x, y)
PigPointer ==
    /\ unit = "pig"
    /\ UNCHANGED <<hostVars, unit, keyVars, scopeVars, toolVars, pageVars>>
    /\ screen # NoScreen
    /\ \E p \in PointerInputs, op \in {"double_click", "move"} :
         LET s == to_screen_coordinates(p[1], p[2], screen) IN
         /\ request' = [op |-> op, points |-> <<p>>]
         /\ connection_calls' =
               << Call(IF op = "move" THEN "mouse_move" ELSE "double_click", s) >>
         /\ KeepRoundTrip(p)
    /\ UNCHANGED screen

\* paths the model may send to drag
DragPaths ==
    { << >> } \cup { <<p>> : p \in ModelInputs }
              \cup { <<p, <<511, 0>>, q>> : p \in {<<0, 0>>, <<1500, 768>>},
                                            q \in ModelInputs }

\* drag(path)
PigDrag ==
    /\ unit = "pig"
    /\ UNCHANGED <<hostVars, unit, keyVars, scopeVars, toolVars, pageVars>>
    /\ screen # NoScreen
    /\ \E path \in DragPaths :
         LET screen_path == [i \in 1..Len(path) |->
                                to_screen_coordinates(path[i][1], path[i][2], screen)]
         IN /\ request' = [op |-> "drag", points |-> path]
            /\ connection_calls' =
                  IF path = << >> THEN << >>
                  ELSE << Call("mouse_move", screen_path[1]),
                          Call("left_click_drag", screen_path[Len(screen_path)]) >>
    /\ physical' = None
    /\ model_point' = None
    /\ UNCHANGED screen

(***************************************************************************)
(* Key mapping: PyAutoGUIComputer.keypress and PigWindows.keypress          *)
(***************************************************************************)
\* keys in one keypress call
MaxKeys == 2

\* key tokens the model may send
KeyTokens == {"CTRL", "Enter", "a", "A", "cmd", "super", "+", "PrintScreen"}

\* str.lower() on those tokens
Lower(key) ==
    CASE key = "CTRL" -> "ctrl"
      [] key = "Enter" -> "enter"
      [] key = "A" -> "a"
      [] key = "PrintScreen" -> "printscreen"
      [] OTHER -> key

\* CUA_KEY_TO_PYAUTOGUI_KEY, the entries the tokens can reach
CUA_KEY_TO_PYAUTOGUI_KEY ==
    ("ctrl" :> "ctrl") @@ ("enter" :> "enter") @@ ("cmd" :> "command")
        @@ ("super" :> "win")

\* CUA_KEY_TO_PIG_KEY, the entries the tokens can reach
CUA_KEY_TO_PIG_KEY ==
    ("ctrl" :> "ctrl") @@ ("enter" :> "return") @@ ("cmd" :> "super")
        @@ ("+" :> "plus")

\* dict.get(key, default)
Get(table, key, default) == IF key \in DOMAIN table THEN table[key] ELSE default

\* CUA_KEY_TO_PYAUTOGUI_KEY.get(key.lower(), key)
PyAutoGUIMappedKey(key) == Get(CUA_KEY_TO_PYAUTOGUI_KEY, Lower(key), key)

\* a lookup that has no default: a token outside the table is an error
PigMappedKeyStrict(key) == Get(CUA_KEY_TO_PIG_KEY, Lower(key), "KeyError")

\* CUA_KEY_TO_PIG_KEY.get(key, key) on the lowercased key
PigMappedKey(key) == Get(CUA_KEY_TO_PIG_KEY, Lower(key), Lower(key))

\* "+".join(keys), as the sequence of its parts
RECURSIVE Join(_)
Join(keys) ==
    IF Len(keys) <= 1 THEN keys
    ELSE << Head(keys), "+" >> \o Join(Tail(keys))

KeyLists == UNION { [1..n -> KeyTokens] : n \in 0..MaxKeys }

KeysIdle ==
    /\ key_backend = None
    /\ key_request = << >>
    /\ native_keys = << >>

\* PyAutoGUIComputer.keypress(keys): pyautogui.hotkey(*mapped_keys)
PyAutoGUIKeypress ==
    /\ unit = "keys"
    /\ UNCHANGED <<hostVars, unit, pigVars, scopeVars, toolVars, pageVars>>
    /\ \E keys \in KeyLists :
         /\ key_request' = keys
         /\ native_keys' = [i \in 1..Len(keys) |-> PyAutoGUIMappedKey(keys[i])]
    /\ key_backend' = "pyautogui"

\* PigWindows.keypress(keys): self.connection.key(combo)
PigKeypress ==
    /\ unit = "keys"
    /\ UNCHANGED <<hostVars, unit, pigVars, scopeVars, toolVars, pageVars>>
    /\ \E keys \in KeyLists :
         /\ key_request' = keys
         /\ native_keys' = Join([i \in 1..Len(keys) |-> PigMappedKey(keys[i])])
    /\ key_backend' = "pig"

(***************************************************************************)
(* Acquire and release: __enter__ and __exit__ of the Surface variants      *)
(***************************************************************************)
ScopeVariants == {"PigWindows", "AnchorBrowser", "SteelBrowser"}

\* what __enter__ acquires: PigWindows a connection to the machine; the remote
\* browsers the automation driver (sync_playwright().start(), in the base class),
\* a remote session, the browser connected over CDP, and its page
Acquired(v) ==
    IF v = "PigWindows" THEN {"connection"}
    ELSE {"driver", "session", "browser", "page"}

\* the release steps __exit__ runs, in order
ReleaseSteps(v) ==
    CASE v = "PigWindows" -> << >>
      [] v = "AnchorBrowser" -> << "session" >>
      [] v = "SteelBrowser" -> << "page", "browser", "driver", "session" >>

\* the resources of the first n steps of a sequence of release steps
Released(steps, n) == { steps[i] : i \in 1..n }

ScopeIdle ==
    /\ variant = None
    /\ scope = "constructed"
    /\ held = {}
    /\ raised = FALSE

\* with Variant() as computer: __enter__
ScopeEnter ==
    /\ unit = "scope"
    /\ UNCHANGED <<hostVars, unit, pigVars, keyVars, toolVars, pageVars>>
    /\ scope = "constructed"
    /\ \E v \in ScopeVariants :
         /\ variant' = v
         /\ held' = Acquired(v)
    /\ scope' = "entered"
    /\ UNCHANGED raised

\* the body of the with-block: an action raises
ScopeAct ==
    /\ unit = "scope"
    /\ UNCHANGED <<hostVars, unit, pigVars, keyVars, toolVars, pageVars>>
    /\ scope = "entered"
    /\ ~raised
    /\ raised' = TRUE
    /\ UNCHANGED <<variant, scope, held>>

\* __exit__(exc_type, exc_val, exc_tb): the release steps run in order; a step
\* that raises ends __exit__, the steps after it are not run
ScopeExit ==
    /\ unit = "scope"
    /\ UNCHANGED <<hostVars, unit, pigVars, keyVars, toolVars, pageVars>>
    /\ scope = "entered"
    /\ \E done \in 0..Len(ReleaseSteps(variant)) :
         held' = held \ Released(ReleaseSteps(variant), done)
    /\ scope' = "exited"
    /\ UNCHANGED <<variant, raised>>

(***************************************************************************)
(* agent.py: the tool specs of an Agent                                    *)
(***************************************************************************)
MaxAgents == 3

\* computer: Computer = None
NoComputer == [environment |-> "none", dimensions |-> <<0, 0>>]

\* the Surfaces an Agent is constructed with: environment and dimensions
Surfaces ==
    { [environment |-> "browser", dimensions |-> <<1024, 768>>],
      [environment |-> "windows", dimensions |-> <<1024, 768>>] }

\* the identity of the list object that is the default value of `tools`
DefaultTools == 0

\* a function tool as a caller declares it (server.py, cli.py: `tools = [...]`)
OpenAppTool == [type |-> "function", name |-> "open_app"]

\* the lists a caller passes as `tools`
ExplicitTools == { << >>, << OpenAppTool >> }

\* {"type": "computer-preview", "display_width": ..., "display_height": ..., "environment": ...}
ComputerTool(computer) ==
    [type |-> "computer-preview",
     display_width |-> computer.dimensions[1],
     display_height |-> computer.dimensions[2],
     environment |-> computer.environment]

ToolsIdle ==
    /\ lists = (DefaultTools :> << >>)
    /\ agents = << >>

\* Agent.__init__(computer=..., tools=...): self.tools = tools, then
\* self.tools += [...] extends that list object in place
AgentInit ==
    /\ unit = "tools"
    /\ UNCHANGED <<hostVars, unit, pigVars, keyVars, scopeVars, pageVars>>
    /\ Len(agents) < MaxAgents
    /\ \E computer \in Surfaces \cup {NoComputer}, explicit \in BOOLEAN :
         LET self == Len(agents) + 1
             tools == IF explicit THEN self ELSE DefaultTools
         IN /\ agents' = Append(agents, [computer |-> computer, tools |-> tools])
            /\ \E given \in ExplicitTools :
                 LET passed == IF explicit THEN given ELSE lists[DefaultTools]
                     bound == IF explicit THEN lists @@ (self :> given) ELSE lists
                 IN lists' = IF computer # NoComputer
                             THEN [bound EXCEPT ![tools] = passed \o << ComputerTool(computer) >>]
                             ELSE bound

\* tools=self.tools in the model call: the specs Agent number a sends
ToolsSent(ls, ag, a) == ls[ag[a].tools]

ComputerSpecs(tools) == SelectSeq(tools, LAMBDA t : t.type = "computer-preview")

(***************************************************************************)
(* anchor.py, hyperbrowser.py, steel.py: the active page                   *)
(***************************************************************************)
MaxPages == 3

\* self._page = None
NoPage == 0

PageVariants == {"AnchorBrowser", "HyperbrowserBrowser", "SteelBrowser"}

RECURSIVE Without(_, _)
\* a page that closes leaves context.pages
Without(seq, p) ==
    IF seq = << >> THEN << >>
    ELSE IF Head(seq) = p THEN Without(Tail(seq), p)
    ELSE << Head(seq) >> \o Without(Tail(seq), p)

PagesIdle ==
    /\ browser_variant = None
    /\ pages = << >>
    /\ active = NoPage
    /\ close_handlers = {}
    /\ created = 0

\* __enter__: _get_browser_and_page returns context.pages[0], which becomes
\* self._page; steel.py and hyperbrowser.py register the close handler on it,
\* anchor.py does not
PagesEnter ==
    /\ unit = "pages"
    /\ UNCHANGED <<hostVars, unit, pigVars, keyVars, scopeVars, toolVars>>
    /\ browser_variant = None
    /\ \E v \in PageVariants :
         /\ browser_variant' = v
         /\ close_handlers' = IF v = "AnchorBrowser" THEN {} ELSE {1}
    /\ pages' = << 1 >>
    /\ active' = 1
    /\ created' = 1

\* the context's "page" event: _handle_new_page(page)
PageCreated ==
    /\ unit = "pages"
    /\ UNCHANGED <<hostVars, unit, pigVars, keyVars, scopeVars, toolVars>>
    /\ browser_variant # None
    /\ created < MaxPages
    /\ created' = created + 1
    /\ pages' = Append(pages, created')
    /\ active' = created'
    /\ close_handlers' = close_handlers \cup {created'}
    /\ UNCHANGED browser_variant

\* a page closes: it leaves context.pages, then its "close" event runs
\* _handle_page_close(page) if that was registered on it
PageClosed ==
    /\ unit = "pages"
    /\ UNCHANGED <<hostVars, unit, pigVars, keyVars, scopeVars, toolVars>>
    /\ browser_variant # None
    /\ \E i \in DOMAIN pages :
         LET page == pages[i] IN
         /\ pages' = Without(pages, page)
         /\ IF page \in close_handlers /\ active = page
            THEN active' = IF pages' # << >> THEN Last(pages') ELSE NoPage
            ELSE UNCHANGED active
    /\ UNCHANGED <<browser_variant, close_handlers, created>>

(***************************************************************************)
(* The specification                                                       *)
(***************************************************************************)
Init ==
    /\ host \in {"cli", "server"}
    /\ environment \in (IF host = "server" THEN {"mac"} ELSE {"mac", "browser"})
    /\ debug \in (IF host = "server" THEN {FALSE} ELSE BOOLEAN)
    /\ stub = NoStub
    /\ conversation_items = << >>
    /\ pc = "idle"
    /\ input_items = << >>
    /\ new_items = << >>
    /\ response = << >>
    /\ idx = 1
    /\ chk = 0
    /\ calls = 0
    /\ err = NoError
    /\ trace = << >>
    /\ cpc = IF host = "cli" THEN "prompt" ELSE "none"
    /\ turns = 0
    /\ hpc = IF host = "server" THEN "recv" ELSE "none"
    /\ inbound = << >>
    /\ outbound = << >>
    /\ processing_turn = FALSE
    /\ safety_response_queue = << >>
    /\ running = {}
    /\ result = << >>
    /\ awaited = 0
    /\ started = << >>
    /\ sent = 0
    /\ unit = "hosts"
    /\ PigIdle
    /\ KeysIdle
    /\ ScopeIdle
    /\ ToolsIdle
    /\ PagesIdle

Next ==
    \/ CallModel
    \/ DispatchItem
    \/ GateReturn
    \/ LoopTest
    \/ ReturnToCaller
    \/ CliPrompt
    \/ ClientSend
    \/ HandlerRecv
    \/ WorkerRunTurn
    \/ HandlerResume

Spec == Init /\ [][Next]_vars

\* the hosts at rest while a component is exercised on its own
HostIdle ==
    /\ host = "none"
    /\ environment = "mac"
    /\ debug = FALSE
    /\ stub = NoStub
    /\ conversation_items = << >>
    /\ pc = "idle"
    /\ input_items = << >>
    /\ new_items = << >>
    /\ response = << >>
    /\ idx = 1
    /\ chk = 0
    /\ calls = 0
    /\ err = NoError
    /\ trace = << >>
    /\ cpc = "none"
    /\ turns = 0
    /\ hpc = "none"
    /\ inbound = << >>
    /\ outbound = << >>
    /\ processing_turn = FALSE
    /\ safety_response_queue = << >>
    /\ running = {}
    /\ result = << >>
    /\ awaited = 0
    /\ started = << >>
    /\ sent = 0

Units == {"pig", "keys", "scope", "tools", "pages"}

UnitInit ==
    /\ HostIdle
    /\ unit \in Units
    /\ PigIdle
    /\ KeysIdle
    /\ ScopeIdle
    /\ ToolsIdle
    /\ PagesIdle

UnitNext ==
    \/ PigEnter
    \/ PigToModel
    \/ PigClick
    \/ PigPointer
    \/ PigDrag
    \/ PyAutoGUIKeypress
    \/ PigKeypress
    \/ ScopeEnter
    \/ ScopeAct
    \/ ScopeExit
    \/ AgentInit
    \/ PagesEnter
    \/ PageCreated
    \/ PageClosed

UnitSpec == UnitInit /\ [][UnitNext]_vars

(***************************************************************************)
(* Properties                                                              *)
(***************************************************************************)
AssistantLast(items) == items # << >> /\ Role(Last(items)) = "assistant"

\* the call item of new_items with call_id c
ItemOfCall(c) ==
    CHOOSE it \in {new_items[i] : i \in DOMAIN new_items} :
        it.type \in CallTypes /\ it.call_id = c

IsComputerCallEvent(e) ==
    \E i \in DOMAIN new_items :
        /\ new_items[i].type = "computer_call"
        /\ new_items[i].call_id = e.call

\* the events of the turn that belong to call c, in order
CallTrace(c) == SelectSeq(trace, LAMBDA e : e.call = c)

CountEvents(c, ev) == Len(SelectSeq(trace, LAMBDA e : e.call = c /\ e.ev = ev))

\* a model response whose only item is a click flagged with two pending checks
GatedClick == WithOutput(<<ComputerCall("click", <<"m1", "m2">>)>>)

\* C1: run_full_turn leaves its loop normally exactly when, after a response was
\* appended and dispatched in full, the last new item has role assistant: a
\* returned turn ends in an assistant item, and the loop goes back to the model
\* only from a list that does not (the first response that ends so stops it).
\* The other ends of a turn are exceptions, which carry an error.
C1_LoopStopsIffAssistantLast ==
    /\ pc = "done" => AssistantLast(new_items)
    /\ (pc = "awaiting_model" /\ calls > 0) => ~AssistantLast(new_items)
    /\ pc = "failed" => err # NoError

C1_Witness == pc = "done" /\ calls = 2 /\ Len(new_items) > 2

ExpectedEvents(item) ==
    << [ev |-> "action", call |-> item.call_id, arg |-> item.action],
       [ev |-> "screenshot", call |-> item.call_id, arg |-> ""] >>
    \o [n \in 1..(2 * Len(item.pending_safety_checks)) |->
          [ev |-> IF n % 2 = 1 THEN "ask" ELSE "acknowledged",
           call |-> item.call_id,
           arg |-> item.pending_safety_checks[(n + 1) \div 2]]]
    \o (IF environment = "browser"
        THEN << [ev |-> "current_url", call |-> item.call_id, arg |-> ""],
                [ev |-> "blocklist", call |-> item.call_id, arg |-> ""] >>
        ELSE << >>)
    \o << [ev |-> "output", call |-> item.call_id, arg |-> ""] >>

\* C3: the events of every computer_call follow the order action (once), screenshot,
\* one gate prompt and answer per pending check in list order, then (browser) the
\* current URL and the blocklist check, then the output: what has happened for a
\* call is a prefix of that sequence, except that the last answer may be a denial,
\* which therefore always comes after the action and the screenshot.
C3_DispatchOrder ==
    \A i \in DOMAIN new_items :
        new_items[i].type = "computer_call" =>
            LET ct == CallTrace(new_items[i].call_id)
                ex == ExpectedEvents(new_items[i])
            IN /\ Len(ct) <= Len(ex)
               /\ \A k \in DOMAIN ct :
                     \/ ct[k] = ex[k]
                     \/ /\ k = Len(ct)
                        /\ k > 2
                        /\ ct[k] = [ex[k] EXCEPT !.ev = "denied"]
                        /\ ex[k].ev = "acknowledged"

C3_Witness ==
    \E i \in DOMAIN trace :
        /\ trace[i].ev = "denied"
        /\ trace[i].arg = "m2"
        /\ environment = "mac"

\* C4: once the gate refused a check of a call, the turn has failed with that
\* check's failure and nothing further happened: the denial is the last event (no
\* later prompt, no later item dispatched, no output), the call's action was
\* invoked exactly once, new_items holds no output for the call, and the model
\* call that returned the call is the last one of the turn.
C4_DenialAbortsTurn ==
    \A j \in DOMAIN trace :
        trace[j].ev = "denied" =>
            /\ j = Len(trace)
            /\ pc \in {"failed", "idle"}
            /\ err = SafetyCheckFailed(trace[j].arg)
            /\ CountEvents(trace[j].call, "action") = 1
            /\ \A i \in DOMAIN new_items :
                  new_items[i].type \in {"computer_call_output", "function_call_output"} =>
                      new_items[i].call_id < trace[j].call
            /\ trace[j].call = CallId(calls, idx)

C4_Witness ==
    /\ pc = "failed"
    /\ trace # << >>
    /\ Last(trace).ev = "denied"
    /\ idx < Len(response)
    /\ chk = 0

C6_ReceiveLoopServesDuringTurn ==
    (host = "server" /\ running # {}) => hpc = "recv"

C8_UnsolicitedResponseDropped ==
    (host = "server" /\ chk = 0) => safety_response_queue = << >>

\* C9: at most one run_full_turn is in flight per connection, whatever the client
\* sends: a turn in flight is the one the receive loop awaits, with
\* processing_turn set.
C9_AtMostOneTurnInFlight ==
    host = "server" =>
        /\ Cardinality(running) <= 1
        /\ running # {} => (running = {awaited} /\ processing_turn /\ hpc = "await")

C9_Witness ==
    /\ host = "server"
    /\ running # {}
    /\ \E i \in DOMAIN inbound : inbound[i].kind = "input" /\ inbound[i].value = "task"
    /\ turns = 2

\* C10: an input frame the client sent while a turn was running never starts a
\* turn (it is answered with the busy error and is not queued).
C10_BusyInputStartsNoTurn ==
    \A i \in DOMAIN started : ~started[i].busy

OutputTypes == {"function_call_output", "computer_call_output"}

\* the output type handle_item returns for a call item
OutputTypeOf(type) ==
    IF type = "function_call" THEN "function_call_output" ELSE "computer_call_output"

\* handle_item has returned normally for the call item with call_id c: the item
\* came with an earlier response of the turn, or before the item now at idx
Handled(c) == (c \div 10) < calls \/ ((c \div 10) = calls /\ (c % 10) < idx)

\* positions in new_items of the output items with call_id c
OutputsOf(c) ==
    { j \in DOMAIN new_items :
        new_items[j].type \in OutputTypes /\ new_items[j].call_id = c }

\* C11: in new_items every function_call_output / computer_call_output item comes
\* immediately after the function_call / computer_call item with the same call_id.
C11_OutputFollowsItsCall ==
    \A i \in DOMAIN new_items :
        new_items[i].type \in OutputTypes =>
            /\ i > 1
            /\ new_items[i - 1].type \in CallTypes
            /\ OutputTypeOf(new_items[i - 1].type) = new_items[i].type
            /\ new_items[i - 1].call_id = new_items[i].call_id

\* C12: for every call item handle_item returned normally for, exactly one output
\* item was returned, of the call's kind and with the call's call_id; a call item
\* not (yet) handled to a normal return has no output, and no output carries a
\* call_id that is not a call item's.
C12_OneOutputPerCall ==
    /\ \A i \in DOMAIN new_items :
          new_items[i].type \in CallTypes =>
              LET outs == OutputsOf(new_items[i].call_id) IN
              IF Handled(new_items[i].call_id)
              THEN /\ Cardinality(outs) = 1
                   /\ \A j \in outs :
                         new_items[j].type = OutputTypeOf(new_items[i].type)
              ELSE outs = {}
    /\ \A j \in DOMAIN new_items :
          new_items[j].type \in OutputTypes =>
              \E i \in DOMAIN new_items :
                  /\ new_items[i].type \in CallTypes
                  /\ new_items[i].call_id = new_items[j].call_id

C12_Witness ==
    /\ \E j \in DOMAIN new_items : new_items[j].type = "function_call_output"
    /\ \E j \in DOMAIN new_items : new_items[j].type = "computer_call_output"

\* C13: the backend action of a computer_call is never invoked more than once, and
\* when run_full_turn has returned normally it was invoked exactly once for every
\* computer_call of the turn, the returned list being non-empty with a last item
\* of role assistant.
C13_ActionOnceAndAssistantLast ==
    /\ \A i \in DOMAIN new_items :
          new_items[i].type = "computer_call" =>
              /\ CountEvents(new_items[i].call_id, "action") <= 1
              /\ pc = "done" => CountEvents(new_items[i].call_id, "action") = 1
    /\ pc = "done" => (new_items # << >> /\ Role(Last(new_items)) = "assistant")

C13_Witness ==
    /\ pc = "done"
    /\ Len(new_items) = 3
    /\ new_items[1].type = "computer_call"
    /\ new_items[3] = Message

\* C14: when the first response of a turn is a single assistant message, the model
\* is not called again (the loop never goes back to awaiting the model and the
\* turn does not fail), no Surface action and no gate prompt happens, the list
\* returned is exactly that message, and the caller's list is what it passed in.
C14_SingleMessageTurn ==
    (calls = 1 /\ response = << Message >>) =>
        /\ pc \in {"processing_items", "done", "idle"}
        /\ err = NoError
        /\ trace = << >>
        /\ new_items = << Message >>
        /\ conversation_items =
              IF pc = "idle" THEN input_items \o new_items ELSE input_items

C14_Witness ==
    /\ host = "cli"
    /\ pc = "done"
    /\ calls = 1
    /\ new_items = << Message >>

\* the call item now at idx was dispatched and the dispatch did not return
Aborted(c) == c = CallId(calls, idx) /\ pc \in {"failed", "idle"} /\ err # NoError

\* C15: for a function_call handled to its return, the Surface method it names was
\* invoked once if the Surface has it and not at all otherwise, and in both cases
\* a function_call_output with the call's call_id and the success sentinel was
\* returned; a function_call never fails for a missing method (a failure of the
\* dispatch of a function_call is the failure of a method the Surface has).
C15_FunctionCallProbes ==
    \A i \in DOMAIN new_items :
        new_items[i].type = "function_call" =>
            LET c == new_items[i].call_id
                present == new_items[i].name \in SurfaceMethods(environment)
            IN /\ Handled(c) =>
                    /\ CountEvents(c, "action") = (IF present THEN 1 ELSE 0)
                    /\ \E j \in DOMAIN new_items :
                          new_items[j] = [type |-> "function_call_output",
                                          call_id |-> c, output |-> "success"]
               /\ Aborted(c) => (present /\ err = BackendError)

C15_Witness ==
    /\ \E i \in DOMAIN new_items :
          /\ new_items[i].type = "function_call"
          /\ Handled(new_items[i].call_id)
          /\ CountEvents(new_items[i].call_id, "action") = 0
    /\ \E i \in DOMAIN new_items :
          /\ new_items[i].type = "function_call"
          /\ Handled(new_items[i].call_id)
          /\ CountEvents(new_items[i].call_id, "action") = 1

\* C16: a computer_call whose action the Surface does not have never returns from
\* the dispatcher: once dispatched the turn has failed with the missing attribute,
\* with no event of the call (no action, no screenshot, no gate prompt) and no
\* output item for it; a function_call naming an absent capability is handled to
\* a normal return with an output and no event.
C16_MissingCapability ==
    \A i \in DOMAIN new_items :
        LET it == new_items[i] IN
        /\ (it.type = "computer_call" /\ it.action \notin SurfaceMethods(environment)) =>
              /\ ~Handled(it.call_id)
              /\ CallTrace(it.call_id) = << >>
              /\ OutputsOf(it.call_id) = {}
              /\ (it.call_id = CallId(calls, idx) /\ pc # "processing_items") =>
                    (pc \in {"failed", "idle"} /\ err = AttributeErrorOf(it.action))
        /\ (it.type = "function_call" /\ it.name \notin SurfaceMethods(environment)) =>
              /\ CallTrace(it.call_id) = << >>
              /\ ~Aborted(it.call_id)
              /\ Handled(it.call_id) => OutputsOf(it.call_id) # {}

C16_Witness ==
    /\ environment = "mac"
    /\ pc = "failed"
    /\ err = AttributeErrorOf("goto")
    /\ \E j \in DOMAIN new_items : new_items[j].type = "function_call_output"

\* C17: a model response without an output field ends the turn with an exception
\* only when run_full_turn runs with debug = True.
C17_NoOutputFatalOnlyInDebug ==
    (pc \in {"failed", "idle"} /\ err \in {NoOutputFromModel, KeyErrorOutput}) => debug

\* the turns of the connection that ended with an exception and were resumed from
FailedTurns == { t \in DOMAIN result : ~result[t].ok /\ t # awaited }

\* C18: a failed turn never terminates its host: the command-line loop is never
\* left through an exception of run_full_turn, and the server has sent exactly one
\* error frame with the failure's text for every failed turn.
C18_TurnFailureKeepsHostAlive ==
    /\ cpc # "crashed"
    /\ host = "server" =>
          \A t \in FailedTurns :
              Len(SelectSeq(outbound, LAMBDA f : f = ErrorFrame(result[t].err.text)))
                  = Cardinality({ u \in FailedTurns : result[u].err = result[t].err })

\* the frames the protocol answers with an error: not JSON, JSON without any of the
\* keys reset, safety_check_response and input, or an input sent during a turn
IsProtocolError(m) ==
    \/ m.kind \in {"malformed", "number", "unrecognized"}
    \/ m.kind = "input" /\ m.busy

\* the receive loop takes the frame at the head of inbound in this step
Receives ==
    /\ host = "server"
    /\ hpc = "recv"
    /\ inbound # << >>
    /\ inbound' = Tail(inbound)

\* C19: the step that handles a protocol error sends exactly one error frame,
\* leaves the conversation history and processing_turn unchanged, and leaves the
\* receive loop receiving (the connection stays open).
C19_ProtocolErrorReplied ==
    [][ (Receives /\ IsProtocolError(Head(inbound))) =>
            /\ Len(outbound') = Len(outbound) + 1
            /\ Last(outbound').kind = "error"
            /\ UNCHANGED <<conversation_items, processing_turn>>
            /\ hpc' = "recv" ]_vars

\* C20: the step that handles a reset empties the conversation history, sends
\* nothing and leaves processing_turn and the mailbox unchanged; and a turn started
\* from an empty history is given exactly the developer instruction followed by
\* that turn's user input.
C20_ResetClearsHistory ==
    [][ Receives =>
            /\ Head(inbound).kind = "reset" =>
                  /\ conversation_items' = << >>
                  /\ UNCHANGED <<outbound, processing_turn, safety_response_queue, hpc>>
            /\ (turns' = turns + 1 /\ conversation_items = << >>) =>
                  conversation_items' = << Developer, User(Head(inbound).value) >> ]_vars

\* the second turn of a connection starts from a history that holds nothing of the
\* first: a reset was handled between the two inputs
C20_Witness ==
    /\ host = "server"
    /\ turns = 2
    /\ running # {}
    /\ conversation_items = << Developer, User("task") >>

\* positions in the trace of the events of kind ev of call c
EventsAt(c, ev) == { j \in DOMAIN trace : trace[j].call = c /\ trace[j].ev = ev }

\* C21: every action the dispatcher executes, other than wait, is preceded by
\* exactly one status report for its call, and the turn the server starts with
\* its status_callback is not refused for that argument.
C21_StatusReportedBeforeAction ==
    /\ \A i \in DOMAIN trace :
          (trace[i].ev = "action" /\ trace[i].arg # "wait") =>
              Cardinality({ j \in EventsAt(trace[i].call, "status") : j < i }) = 1
    /\ \A t \in DOMAIN result :
          result[t].err # TypeErrorUnexpectedKeyword("status_callback")

\* C22: a computer_call_output has a current_url field exactly when the
\* environment is browser; in a browser the URL was read and checked against the
\* blocklist before the output was returned, elsewhere it is neither read nor
\* checked; and a turn the blocklist check ended has no output for that call.
C22_CurrentUrlOnlyInBrowser ==
    /\ \A j \in DOMAIN new_items :
          new_items[j].type = "computer_call_output" =>
              LET c == new_items[j].call_id IN
              /\ ("current_url" \in DOMAIN new_items[j].output) <=> (environment = "browser")
              /\ environment = "browser" =>
                    \E u \in EventsAt(c, "current_url"), b \in EventsAt(c, "blocklist"),
                       o \in EventsAt(c, "output") : u < b /\ b < o
    /\ environment # "browser" =>
          \A i \in DOMAIN trace : trace[i].ev \notin {"current_url", "blocklist"}
    /\ err = BlockedUrlError =>
          /\ environment = "browser"
          /\ pc \in {"failed", "idle"}
          /\ Last(trace).ev = "blocklist"
          /\ OutputsOf(Last(trace).call) = {}

C22_Witness ==
    /\ pc = "failed"
    /\ err = BlockedUrlError
    /\ \E j \in DOMAIN new_items :
          /\ new_items[j].type = "computer_call_output"
          /\ "current_url" \in DOMAIN new_items[j].output

\* the physical point the recorded model point scales back to
RoundTrip == to_screen_coordinates(model_point[1], model_point[2], screen)

ModelDimensions == <<ModelWidth, ModelHeight>>

\* the least integer not below a / b, for a >= 0 and b > 0
CeilDiv(a, b) == (a + b - 1) \div b

Carried ==
    IF request.op = "drag" /\ request.points # << >>
    THEN << request.points[1], request.points[Len(request.points)] >>
    ELSE request.points

\* C25: every coordinate pair PigWindows hands to the connection is the scaled
\* request point and lies inside the physical screen, 0 <= x <= screen_w - 1 and
\* 0 <= y <= screen_h - 1, whatever integers the request carried.
C25_ScaledAndClamped ==
    unit = "pig" =>
        /\ Len(connection_calls) <= Len(Carried)
        /\ \A i \in DOMAIN connection_calls :
              /\ 0 <= connection_calls[i].x /\ connection_calls[i].x <= screen[1] - 1
              /\ 0 <= connection_calls[i].y /\ connection_calls[i].y <= screen[2] - 1
              /\ <<connection_calls[i].x, connection_calls[i].y>> =
                    to_screen_coordinates(Carried[i][1], Carried[i][2], screen)

C25_Witness ==
    /\ unit = "pig"
    /\ request.op = "drag"
    /\ Len(connection_calls) = 2
    /\ Len(request.points) = 3
    /\ request.points[1] = <<1500, 768>>
    /\ connection_calls[1] = Call("mouse_move", <<screen[1] - 1, screen[2] - 1>>)
    /\ request.points[3][1] < 0
    /\ connection_calls[2] = Call("left_click_drag", <<0, 0>>)

\* the mapping table of the backend whose keypress was called
KeyTable ==
    IF key_backend = "pig" THEN CUA_KEY_TO_PIG_KEY ELSE CUA_KEY_TO_PYAUTOGUI_KEY

\* the native key at the position of the i-th token of the request
NativeAt(i) == IF key_backend = "pig" THEN native_keys[2 * i - 1] ELSE native_keys[i]

\* the native call has one key per token of the request
OneNativeKeyPerToken ==
    Len(native_keys) =
        IF key_backend = "pig" /\ key_request # << >>
        THEN 2 * Len(key_request) - 1
        ELSE Len(key_request)

\* the canonical key tokens: the lowercase ones
Canonical(key) == Lower(key) = key

\* C26: in both backends every canonical (lowercase) token of a keypress request
\* that is not a key of the backend's table reaches the native key call unchanged
\* and at its own position, whatever the other tokens are; a canonical token that
\* is a key of the table is replaced by its mapped name; the native call has one
\* key per token, so no token makes keypress fail or disappear.
C26_CanonicalPassThrough ==
    (unit = "keys" /\ key_backend # None) =>
        /\ OneNativeKeyPerToken
        /\ \A i \in DOMAIN key_request :
              Canonical(key_request[i]) =>
                  IF key_request[i] \in DOMAIN KeyTable
                  THEN NativeAt(i) = KeyTable[key_request[i]]
                  ELSE NativeAt(i) = key_request[i]

C26_Witness ==
    /\ unit = "keys"
    /\ key_backend = "pig"
    /\ key_request = << "super", "a" >>
    /\ native_keys = << "super", "+", "a" >>

\* C23: after __exit__, entered normally or because an action raised, every
\* resource acquired by __enter__ has been closed or released, also when a
\* release step failed.
C23_ScopeExitReleasesAll ==
    (unit = "scope" /\ scope = "exited") => held = {}

\* the call items of the current response that handle_item has returned for
HandledCalls ==
    SelectSeq(response, LAMBDA it : it.type \in CallTypes /\ Handled(it.call_id))

\* the length new_items had when the current response was appended to it
ResponseBase == Len(new_items) - Len(response) - Len(HandledCalls)

\* C27: the working list ends with the whole current response, in order, followed
\* by the outputs of its call items handled so far, in response order; Surface and
\* gate events happen in response order; the terminal test is evaluated only when
\* every item of the response was dispatched (also the items after an assistant
\* message), and it ends the turn only after a response without any call item.
C27_ResponseThenOutputs ==
    /\ ResponseBase >= 0
    /\ SubSeq(new_items, ResponseBase + 1, ResponseBase + Len(response)) = response
    /\ \A n \in DOMAIN HandledCalls :
          LET out == new_items[ResponseBase + Len(response) + n] IN
          /\ out.type = OutputTypeOf(HandledCalls[n].type)
          /\ out.call_id = HandledCalls[n].call_id
    /\ \A i, j \in DOMAIN trace : i < j => trace[i].call <= trace[j].call
    /\ (pc = "done" \/ (pc = "awaiting_model" /\ calls > 0)) => idx > Len(response)
    /\ pc = "done" => \A i \in DOMAIN response : response[i].type \notin CallTypes

C27_Witness ==
    /\ Len(response) = 2
    /\ response[1] = Message
    /\ response[2].type = "function_call"
    /\ pc = "awaiting_model"
    /\ Last(new_items).type = "function_call_output"

\* C28: the step in which the server resumes from a failed turn leaves the
\* conversation history as it was when the turn started, which is the history
\* before the turn, the developer instruction if that was empty, and the turn's
\* user input as last item; so the history then holds no item produced during the
\* turn and still holds the unanswered user input.
C28_FailedTurnKeepsUserInput ==
    [][ /\ (Receives /\ turns' = turns + 1) =>
              conversation_items' =
                  (IF conversation_items = << >> THEN << Developer >> ELSE conversation_items)
                  \o << User(Head(inbound).value) >>
        /\ (host = "server" /\ hpc = "await" /\ hpc' = "recv" /\ ~result[awaited].ok) =>
              /\ conversation_items' = conversation_items
              /\ Last(conversation_items') = User(Last(started).value)
              /\ \A i \in DOMAIN conversation_items' :
                    Role(conversation_items'[i]) \in {"developer", "user"} ]_vars

C28_Witness ==
    /\ host = "server"
    /\ turns = 2
    /\ running # {}
    /\ conversation_items = << Developer, User("task"), User("task") >>

\* C29: every construction of an Agent with a Surface and without a tools
\* argument leaves that Agent with exactly one computer-preview spec, the one of
\* its own Surface, however many Agents were constructed before it, and changes
\* the tool specs of no Agent constructed earlier.
C29_OwnComputerToolOnce ==
    [][ /\ \A a \in DOMAIN agents' :
              (agents'[a].computer # NoComputer /\ agents'[a].tools = DefaultTools) =>
                  ComputerSpecs(ToolsSent(lists', agents', a))
                      = << ComputerTool(agents'[a].computer) >>
        /\ \A a \in DOMAIN agents :
              ToolsSent(lists', agents', a) = ToolsSent(lists, agents, a) ]_vars

\* C30: in the three remote-browser Surfaces the active page is, after any page
\* events, the most recently created page that is still open, or None when no
\* page is open.
C30_ActiveIsNewestOpenPage ==
    (unit = "pages" /\ browser_variant # None) =>
        active = (IF pages # << >> THEN Last(pages) ELSE NoPage)

====
